---- MODULE Spec2Model ----
(***************************************************************************)
(* The login / registration / attribute-update flows of react-cognito.     *)
(*                                                                         *)
(* Promise-returning flows: authenticate, performLogin, loginOrVerifyEmail,*)
(* emailVerificationFlow, updateAttributes, registerUser (the module that  *)
(* exports them), and the dispatching authenticate of the Login component  *)
(* (src/src/Login.jsx).                                                    *)
(*                                                                         *)
(* JavaScript is single threaded: one action of the model is one callback  *)
(* of a remote collaborator run to completion, together with the promise   *)
(* reactions (microtasks) it triggers, which all run before the next       *)
(* callback is delivered.                                                  *)
(***************************************************************************)
EXTENDS Integers, Sequences, FiniteSets, TLC

\* Number of flow slots (flows that may exist at the same time).
NumFlows == 2

\* How many completion callbacks a misbehaving collaborator invokes for one
\* remote call, at most.
MaxCallbacks == 2

Flows == 1..NumFlows

----------------------------------------------------------------------------
(* Values *)

Usernames == {"alice", "bob"}
Passwords == {"pw"}
Messages  == {"msgA", "msgB"}
Tokens    == {"jwt1", "jwt2"}

\* A JavaScript config value: undefined, null, or an object whose
\* mandatoryEmailVerification is unset or holds a boolean, string or number.
MevValues == {"unset", "bool:true", "bool:false", "str:false", "num:0"}

ConfigObject(mev) ==
  [kind |-> "object", region |-> "eu-west-1", userPool |-> "pool-1",
   identityPool |-> "idp-1", mandatoryEmailVerification |-> mev]

ConfigAbsent(k) ==
  [kind |-> k, region |-> "unset", userPool |-> "unset",
   identityPool |-> "unset", mandatoryEmailVerification |-> "unset"]

Configs == {ConfigAbsent("undefined"), ConfigAbsent("null")}
             \cup {ConfigObject(m) : m \in MevValues}

\* The DirectoryUser handles. NullUser is the JavaScript null, UndefinedUser
\* the JavaScript undefined.
NullUser == [Username |-> "null", origin |-> "null"]
UndefinedUser == [Username |-> "undefined", origin |-> "undefined"]
NoUser   == [Username |-> "none", origin |-> "none"]

\* new CognitoUser({Username, Pool})
CognitoUser(username) == [Username |-> username, origin |-> "constructed"]

\* result.user of signUp
SignUpUser(username) == [Username |-> username, origin |-> "signUp"]

\* Attribute maps are functions from a set of names to strings.
EmptyMap == [n \in {} |-> "x"]

\* JavaScript objects keep their keys in insertion order; the model keeps
\* them in this fixed order.
AttrNames == <<"email", "email_verified", "given_name">>

Attr(n, v) == [Name |-> n, Value |-> v]

\* The attribute lists the directory answers getUserAttributes with.
DirectoryAttrLists ==
  { <<>>,
    <<Attr("email_verified", "true")>>,
    <<Attr("email_verified", "false")>>,
    <<Attr("email", "a@b.com"), Attr("email_verified", "true")>>,
    <<Attr("email_verified", "false"), Attr("email_verified", "true")>>,
    <<Attr("email", "a@b.com"), Attr("email_verified", "True")>> }

\* The attribute maps a caller submits.
SubmittedMaps ==
  { EmptyMap,
    [n \in {"email"} |-> "a@b.com"],
    [n \in {"email", "given_name"} |-> IF n = "email" THEN "c@d.com" ELSE "A"],
    [n \in {"email", "email_verified", "given_name"} |->
       CASE n = "email" -> "e@f.com" [] n = "email_verified" -> "false"
         [] n = "given_name" -> "B"] }

----------------------------------------------------------------------------
(* Outcomes: the action objects of ./actions *)

Action_login(user, attributes) ==
  [type |-> "LoggedIn", user |-> user, attributes |-> attributes]

Action_loginFailure(user, message) ==
  [type |-> "LoginFailure", user |-> user, message |-> message]

Action_mfaRequired(user) == [type |-> "MfaRequired", user |-> user]

Action_newPasswordRequired(user) ==
  [type |-> "NewPasswordRequired", user |-> user]

Action_confirmationRequired(user) ==
  [type |-> "ConfirmationRequired", user |-> user]

Action_emailVerificationRequired(user, attributes) ==
  [type |-> "EmailVerificationRequired", user |-> user,
   attributes |-> attributes]

Action_emailVerificationFailed(user, error, attributes) ==
  [type |-> "EmailVerificationFailed", user |-> user,
   attributes |-> attributes, reason |-> error]

Action_updateAttributes(attributes) ==
  [type |-> "AttributesUpdated", attributes |-> attributes]

----------------------------------------------------------------------------
(* Promises *)

NotCreated  == [state |-> "none"]
Pending     == [state |-> "pending"]
Resolved(v) == [state |-> "resolved", value |-> v]
Rejected(r) == [state |-> "rejected", reason |-> r]

PromiseNames ==
  {"sendAttributeVerificationCode", "getUserAttributes",
   "emailVerificationFlow", "loginOrVerifyEmail",
   "refreshIdentityCredentials", "performLogin", "authenticate",
   "updateAttributes", "registerUser"}

NoPromises == [n \in PromiseNames |-> NotCreated]

\* new Promise(...): the promise `name` of a flow comes into being.
Create(ps, name) == [ps EXCEPT ![name] = Pending]

\* resolve(v) / reject(r): only the first settlement of a promise counts.
Settle(ps, name, st) ==
  IF ps[name].state = "pending" THEN [ps EXCEPT ![name] = st] ELSE ps

\* How a settled promise reaches the promise that waits for it:
\*   "then"  : source.then(resolve)  - forwards a fulfilment only; a rejection
\*             of the source goes to the promise .then returns, which nobody
\*             holds, and the target stays pending;
\*   "adopt" : resolve(source)       - the target follows the source, fulfilled
\*             or rejected.
\* In leaf-to-root order.
Links ==
  << [from |-> "emailVerificationFlow", to |-> "loginOrVerifyEmail", how |-> "adopt"],
     [from |-> "loginOrVerifyEmail",    to |-> "performLogin",       how |-> "then"],
     [from |-> "loginOrVerifyEmail",    to |-> "updateAttributes",   how |-> "adopt"],
     [from |-> "performLogin",          to |-> "authenticate",       how |-> "then"],
     [from |-> "authenticate",          to |-> "registerUser",       how |-> "adopt"] >>

FollowLink(ps, l) ==
  LET src == ps[l.from] IN
  IF src.state = "resolved" THEN Settle(ps, l.to, Resolved(src.value))
  ELSE IF src.state = "rejected" /\ l.how = "adopt" THEN Settle(ps, l.to, src)
  ELSE ps

RECURSIVE FollowLinks(_, _)
FollowLinks(ps, i) ==
  IF i > Len(Links) THEN ps ELSE FollowLinks(FollowLink(ps, Links[i]), i + 1)

\* The promise reactions run after a callback: every settlement travels up.
Propagate(ps) == FollowLinks(ps, 1)

----------------------------------------------------------------------------
(* Pure functions *)

\* A config is truthy unless it is undefined or null.
Truthy(config) == config.kind = "object"

\* Variant: the flag is never consulted.
emailVerificationIsMandatory_always(config) == TRUE

\* Variant: config && config.mandatoryEmailVerification !== false, which lets
\* an absent config switch verification off.
emailVerificationIsMandatory_needsConfig(config) ==
  Truthy(config) /\ config.mandatoryEmailVerification # "bool:false"

\* Variant: the flag compared with == instead of ===, so that 0 switches
\* verification off as false does.
emailVerificationIsMandatory_loose(config) ==
  ~(Truthy(config) /\ config.mandatoryEmailVerification \in {"bool:false", "num:0"})

emailVerificationIsMandatory(config) ==
  ~(Truthy(config) /\ config.mandatoryEmailVerification = "bool:false")

\* attributes.email_verified === 'true'
EmailIsVerified(attributes) ==
  /\ "email_verified" \in DOMAIN attributes
  /\ attributes["email_verified"] = "true"

\* The loop of getUserAttributes: attributes[name] = value, in list order.
RECURSIVE DecodeAttributes(_, _, _)
DecodeAttributes(result, i, attributes) ==
  IF i > Len(result) THEN attributes
  ELSE DecodeAttributes(result, i + 1,
         [n \in DOMAIN attributes \cup {result[i].Name} |->
            IF n = result[i].Name THEN result[i].Value ELSE attributes[n]])

RECURSIVE AttrListFrom(_, _)
AttrListFrom(attributes, i) ==
  IF i > Len(AttrNames) THEN <<>>
  ELSE (IF AttrNames[i] \in DOMAIN attributes
          THEN <<Attr(AttrNames[i], attributes[AttrNames[i]])>>
          ELSE <<>>) \o AttrListFrom(attributes, i + 1)

\* Variant: Value: key instead of Value: attributes[key].
mkAttrList_names(attributes) ==
  [i \in DOMAIN AttrListFrom(attributes, 1) |->
     Attr(AttrListFrom(attributes, 1)[i].Name, AttrListFrom(attributes, 1)[i].Name)]

mkAttrList(attributes) == AttrListFrom(attributes, 1)

\* buildLogins reads config.region: it throws a TypeError on undefined or null.
BuildLoginsThrows(config) == ~Truthy(config)

TypeErrorReason == "TypeError"

buildLogins(username, jwtToken, config) ==
  [IdentityPoolId |-> config.identityPool,
   Logins |-> [url |-> <<"cognito-idp", config.region, "amazonaws.com", config.userPool>>,
               token |-> jwtToken],
   LoginId |-> username]

\* new CognitoIdentityCredentials(logins), made by flow f.
CognitoIdentityCredentials(f, logins) == [owner |-> f, params |-> logins]

NoCredentials == [owner |-> 0]

\* onFailure of authenticate
AuthFailureOutcome(usr, error) ==
  IF error.code = "UserNotConfirmedException"
    THEN Action_confirmationRequired(usr)
    ELSE Action_loginFailure(usr, error.message)

\* onFailure of the Login component's authenticate
LoginFailureOutcome(usr, error) == Action_loginFailure(usr, error.message)

\* Variant: the booleans of onSuccess and inputVerificationCode swapped.
SendCodeSettlement_swapped(answer) ==
  CASE answer.cb = "onSuccess" -> Resolved(TRUE)
    [] answer.cb = "inputVerificationCode" -> Resolved(FALSE)
    [] answer.cb = "onFailure" -> Rejected(answer.error.message)

\* The callbacks handed to getAttributeVerificationCode.
SendCodeSettlement(answer) ==
  CASE answer.cb = "onSuccess" -> Resolved(FALSE)
    [] answer.cb = "inputVerificationCode" -> Resolved(TRUE)
    [] answer.cb = "onFailure" -> Rejected(answer.error.message)

\* The two reactions of emailVerificationFlow to sendAttributeVerificationCode.
EmailVerificationOutcome(usr, attributes, sent) ==
  IF sent.state = "resolved"
    THEN (IF sent.value
            THEN Action_emailVerificationRequired(usr, attributes)
            ELSE Action_login(usr, attributes))
    ELSE Action_emailVerificationFailed(usr, sent.reason, attributes)

----------------------------------------------------------------------------
(* State *)

VARIABLES
  call,         \* per flow: the entry point called and its arguments
  user,         \* per flow: the user the continuation chain closes over
  config,       \* per flow: the config the continuation chain closes over
  authDetails,  \* per flow: the AuthenticationDetails handed to authenticateUser
  promise,      \* per flow: the state of each promise of the chain
  outstanding,  \* per flow: the remote calls whose callback is still due
  calls,        \* per flow: the remote calls made so far, in order
  answers,      \* per flow: the callbacks delivered so far, in order
  creds,        \* per flow: the credentials object the flow constructed
  dispatched,   \* per flow: the actions handed to dispatch (Login component)
  credentials,  \* AWSCognito.config.credentials, the ambient credential slot
  fedLog        \* the refresh calls on the ambient credentials, started and completed, in order

vars == <<call, user, config, authDetails, promise, outstanding, calls, answers, creds,
          dispatched, credentials, fedLog>>

Idle == [kind |-> "idle"]

\* new AuthenticationDetails({Username, Password})
AuthenticationDetails(username, password) ==
  [Username |-> username, Password |-> password]

NoDetails == [Username |-> "none", Password |-> "none"]

Init ==
  /\ call = [f \in Flows |-> Idle]
  /\ user = [f \in Flows |-> NoUser]
  /\ config = [f \in Flows |-> ConfigAbsent("undefined")]
  /\ authDetails = [f \in Flows |-> NoDetails]
  /\ promise = [f \in Flows |-> NoPromises]
  /\ outstanding = [f \in Flows |-> {}]
  /\ calls = [f \in Flows |-> <<>>]
  /\ answers = [f \in Flows |-> <<>>]
  /\ creds = [f \in Flows |-> NoCredentials]
  /\ dispatched = [f \in Flows |-> <<>>]
  /\ credentials = NoCredentials
  /\ fedLog = <<>>

\* A remote call is made: its callback becomes due.
Invoke(f, out, name) ==
  /\ outstanding' = [outstanding EXCEPT ![f] = out \cup {name}]
  /\ calls' = [calls EXCEPT ![f] = Append(@, name)]

\* The callback of remote call `name` is being delivered.
Answered(f, name) == outstanding[f] \ {name}

Deliver(f, name, answer) ==
  answers' = [answers EXCEPT ![f] = Append(@, [call |-> name, answer |-> answer])]

----------------------------------------------------------------------------
(* authenticate and its continuation chain *)

\* The body of authenticate: the user is constructed, authenticateUser called.
\* `ps` and `out` are the flow's promises and outstanding calls so far.
CallAuthenticate(f, ps, out, username, password, cfg) ==
  /\ authDetails' = [authDetails EXCEPT ![f] = AuthenticationDetails(username, password)]
  /\ user' = [user EXCEPT ![f] = CognitoUser(username)]
  /\ config' = [config EXCEPT ![f] = cfg]
  /\ promise' = [promise EXCEPT ![f] = Create(ps, "authenticate")]
  /\ Invoke(f, out, "authenticateUser")

\* authenticate(username, password, userPool, config)
authenticate(f, username, password, cfg) ==
  /\ call[f] = Idle
  /\ UNCHANGED answers
  /\ call' = [call EXCEPT ![f] = [kind |-> "authenticate", username |-> username,
                                  password |-> password, config |-> cfg]]
  /\ CallAuthenticate(f, promise[f], {}, username, password, cfg)
  /\ UNCHANGED <<creds, dispatched, credentials, fedLog>>

\* Variant: mfaRequired wired to the newPasswordRequired action.
AuthenticateUserSettlement_mfaAsNewPassword(usr, answer) ==
  CASE answer.cb = "onFailure" -> Resolved(AuthFailureOutcome(usr, answer.error))
    [] answer.cb = "mfaRequired" -> Resolved(Action_newPasswordRequired(usr))
    [] answer.cb = "newPasswordRequired" -> Resolved(Action_newPasswordRequired(usr))

\* The promise a callback of authenticateUser settles, and how.
AuthenticateUserSettlement(usr, answer) ==
  CASE answer.cb = "onFailure" -> Resolved(AuthFailureOutcome(usr, answer.error))
    [] answer.cb = "mfaRequired" -> Resolved(Action_mfaRequired(usr))
    [] answer.cb = "newPasswordRequired" -> Resolved(Action_newPasswordRequired(usr))

\* The callbacks authenticate hands to user.authenticateUser.
\* onSuccess: performLogin(user, config).then(resolve); user is not null, so
\* performLogin calls user.getSession.
authenticateUserCallback(f, answer) ==
  /\ call[f].kind \in {"authenticate", "registerUser"}
  /\ "authenticateUser" \in outstanding[f]
  /\ Deliver(f, "authenticateUser", answer)
  /\ IF answer.cb = "onSuccess"
       THEN /\ promise' = [promise EXCEPT ![f] = Create(@, "performLogin")]
            /\ Invoke(f, Answered(f, "authenticateUser"), "getSession")
       ELSE /\ promise' = [promise EXCEPT ![f] =
                 Propagate(Settle(@, "authenticate",
                                  AuthenticateUserSettlement(user[f], answer)))]
            /\ outstanding' = [outstanding EXCEPT ![f] = Answered(f, "authenticateUser")]
            /\ UNCHANGED calls
  /\ UNCHANGED <<call, user, config, authDetails, creds, dispatched, credentials, fedLog>>

\* Variant: user !== null, which lets undefined through.
UserIsNull_strict(usr) == usr = NullUser

\* The else branch of `user != null`: null and undefined alike.
UserIsNull(usr) == usr \in {NullUser, UndefinedUser}

\* performLogin(user, config), called directly.
performLogin(f, usr, cfg) ==
  /\ call[f] = Idle
  /\ UNCHANGED answers
  /\ call' = [call EXCEPT ![f] = [kind |-> "performLogin", user |-> usr, config |-> cfg]]
  /\ user' = [user EXCEPT ![f] = usr]
  /\ config' = [config EXCEPT ![f] = cfg]
  /\ UNCHANGED authDetails
  /\ IF ~UserIsNull(usr)
       THEN /\ promise' = [promise EXCEPT ![f] = Create(@, "performLogin")]
            /\ Invoke(f, {}, "getSession")
       ELSE /\ promise' = [promise EXCEPT ![f] =
                 Settle(Create(@, "performLogin"), "performLogin",
                        Rejected("user is null"))]
            /\ UNCHANGED <<outstanding, calls>>
  /\ UNCHANGED <<creds, dispatched, credentials, fedLog>>

\* Variant: reject(err.message), as the other functions of the module do.
SessionFailureSettlement_reject(usr, error) == Rejected(error.message)

\* What performLogin settles its promise with when getSession reports err.
SessionFailureSettlement(usr, error) ==
  Resolved(Action_loginFailure(usr, error.message))

\* The callback performLogin hands to user.getSession.
\* err: resolve(Action.loginFailure(user, err.message)).
\* Otherwise refreshIdentityCredentials(username, jwtToken, config): buildLogins
\* throws inside the promise executor when config is undefined or null, which
\* rejects the promise with the TypeError and reaches the rejection handler of
\* performLogin; else creds.refresh is called.
getSessionCallback(f, answer) ==
  /\ "getSession" \in outstanding[f]
  /\ Deliver(f, "getSession", answer)
  /\ LET out == Answered(f, "getSession")
         ps  == Create(promise[f], "refreshIdentityCredentials")
     IN
     IF answer.cb = "err"
       THEN /\ promise' = [promise EXCEPT ![f] =
                 Propagate(Settle(@, "performLogin",
                     SessionFailureSettlement(user[f], answer.error)))]
            /\ outstanding' = [outstanding EXCEPT ![f] = out]
            /\ UNCHANGED <<calls, creds>>
       ELSE IF BuildLoginsThrows(config[f])
       THEN /\ promise' = [promise EXCEPT ![f] =
                 Propagate(Settle(
                     Settle(ps, "refreshIdentityCredentials", Rejected(TypeErrorReason)),
                     "performLogin",
                     Resolved(Action_loginFailure(user[f], TypeErrorReason))))]
            /\ outstanding' = [outstanding EXCEPT ![f] = out]
            /\ UNCHANGED <<calls, creds>>
       ELSE /\ promise' = [promise EXCEPT ![f] = ps]
            /\ creds' = [creds EXCEPT ![f] =
                 CognitoIdentityCredentials(f,
                     buildLogins(user[f].Username, answer.token, config[f]))]
            /\ Invoke(f, out, "refresh")
  /\ UNCHANGED <<call, user, config, authDetails, dispatched, credentials, fedLog>>

\* The body of loginOrVerifyEmail: getUserAttributes(user) is called.
CallLoginOrVerifyEmail(f, ps, out) ==
  /\ promise' = [promise EXCEPT ![f] =
        Create(Create(ps, "loginOrVerifyEmail"), "getUserAttributes")]
  /\ Invoke(f, out, "getUserAttributes")

\* Variant: the error argument of the refresh callback is ignored.
RefreshSettlement_swallow(answer) == Resolved("undefined")

\* Variant: the test on the error argument is inverted.
RefreshSettlement_inverted(answer) ==
  IF answer.cb = "error" THEN Resolved("undefined") ELSE Rejected("undefined")

\* What the refresh callback of refreshIdentityCredentials settles.
RefreshSettlement(answer) ==
  IF answer.cb = "error" THEN Rejected(answer.error.message) ELSE Resolved("undefined")

\* The callback refreshIdentityCredentials hands to creds.refresh, and the two
\* reactions of performLogin:
\*   () => loginOrVerifyEmail(user, config).then(resolve)
\*   message => resolve(Action.loginFailure(user, message))
refreshCallback(f, answer) ==
  /\ call[f].kind # "Login"
  /\ "refresh" \in outstanding[f]
  /\ Deliver(f, "refresh", answer)
  /\ LET out == Answered(f, "refresh")
         ps  == Settle(promise[f], "refreshIdentityCredentials", RefreshSettlement(answer))
     IN
     IF ps["refreshIdentityCredentials"].state = "rejected"
       THEN /\ promise' = [promise EXCEPT ![f] =
                 Propagate(Settle(ps, "performLogin",
                     Resolved(Action_loginFailure(user[f],
                                ps["refreshIdentityCredentials"].reason))))]
            /\ outstanding' = [outstanding EXCEPT ![f] = out]
            /\ UNCHANGED calls
       ELSE CallLoginOrVerifyEmail(f, ps, out)
  /\ UNCHANGED <<call, user, config, authDetails, creds, dispatched, credentials, fedLog>>

\* loginOrVerifyEmail(user, config), called directly.
loginOrVerifyEmail(f, usr, cfg) ==
  /\ call[f] = Idle
  /\ UNCHANGED answers
  /\ call' = [call EXCEPT ![f] = [kind |-> "loginOrVerifyEmail", user |-> usr,
                                  config |-> cfg]]
  /\ user' = [user EXCEPT ![f] = usr]
  /\ config' = [config EXCEPT ![f] = cfg]
  /\ CallLoginOrVerifyEmail(f, promise[f], {})
  /\ UNCHANGED <<authDetails, creds, dispatched, credentials, fedLog>>

\* Variant: a failed fetch counts as a user without attributes.
GetUserAttributesSettlement_empty(answer) ==
  IF answer.cb = "error"
    THEN Resolved(EmptyMap)
    ELSE Resolved(DecodeAttributes(answer.result, 1, EmptyMap))

\* What the callback of user.getUserAttributes settles.
GetUserAttributesSettlement(answer) ==
  IF answer.cb = "error"
    THEN Rejected(answer.error.message)
    ELSE Resolved(DecodeAttributes(answer.result, 1, EmptyMap))

\* Variant: email_verified tested for truthiness instead of === 'true'.
MustVerifyEmail_truthy(cfg, attributes) ==
  emailVerificationIsMandatory(cfg) /\ "email_verified" \notin DOMAIN attributes

\* Variant: a module-level flag remembers that a verification code was
\* requested, and no second one is.
MustVerifyEmail_once(cfg, attributes) ==
  /\ emailVerificationIsMandatory(cfg)
  /\ ~EmailIsVerified(attributes)
  /\ \A g \in Flows : \A i \in DOMAIN calls[g] :
        calls[g][i] # "getAttributeVerificationCode"

\* The branch of loginOrVerifyEmail once the attributes are there.
MustVerifyEmail(cfg, attributes) ==
  emailVerificationIsMandatory(cfg) /\ ~EmailIsVerified(attributes)

\* The callback getUserAttributes hands to user.getUserAttributes, and the one
\* reaction of loginOrVerifyEmail (it registers no rejection handler).
getUserAttributesCallback(f, answer) ==
  /\ "getUserAttributes" \in outstanding[f]
  /\ Deliver(f, "getUserAttributes", answer)
  /\ LET out == Answered(f, "getUserAttributes")
         ps  == Settle(promise[f], "getUserAttributes", GetUserAttributesSettlement(answer))
         got == ps["getUserAttributes"]
     IN
     IF got.state = "rejected"
       THEN /\ promise' = [promise EXCEPT ![f] = Propagate(ps)]
            /\ outstanding' = [outstanding EXCEPT ![f] = out]
            /\ UNCHANGED calls
       ELSE IF MustVerifyEmail(config[f], got.value)
       THEN \* resolve(emailVerificationFlow(user, attributes))
            /\ promise' = [promise EXCEPT ![f] =
                 Create(Create(ps, "emailVerificationFlow"),
                        "sendAttributeVerificationCode")]
            /\ Invoke(f, out, "getAttributeVerificationCode")
       ELSE /\ promise' = [promise EXCEPT ![f] =
                 Propagate(Settle(ps, "loginOrVerifyEmail",
                                  Resolved(Action_login(user[f], got.value))))]
            /\ outstanding' = [outstanding EXCEPT ![f] = out]
            /\ UNCHANGED calls
  /\ UNCHANGED <<call, user, config, authDetails, creds, dispatched, credentials, fedLog>>

\* The callbacks sendAttributeVerificationCode hands to
\* user.getAttributeVerificationCode('email', ...), and the reactions of
\* emailVerificationFlow.
getAttributeVerificationCodeCallback(f, answer) ==
  /\ "getAttributeVerificationCode" \in outstanding[f]
  /\ Deliver(f, "getAttributeVerificationCode", answer)
  /\ LET ps == Settle(promise[f], "sendAttributeVerificationCode",
                      SendCodeSettlement(answer))
     IN
     promise' = [promise EXCEPT ![f] =
        Propagate(Settle(ps, "emailVerificationFlow",
            Resolved(EmailVerificationOutcome(user[f],
                        ps["getUserAttributes"].value,
                        ps["sendAttributeVerificationCode"]))))]
  /\ outstanding' = [outstanding EXCEPT ![f] = Answered(f, "getAttributeVerificationCode")]
  /\ UNCHANGED <<call, user, config, authDetails, calls, creds, dispatched, credentials, fedLog>>

----------------------------------------------------------------------------
(* updateAttributes *)

\* updateAttributes(user, attributes, config)
updateAttributes(f, usr, attributes, cfg) ==
  /\ call[f] = Idle
  /\ UNCHANGED answers
  /\ call' = [call EXCEPT ![f] = [kind |-> "updateAttributes", user |-> usr,
                                  attributes |-> attributes,
                                  attributeList |-> mkAttrList(attributes),
                                  config |-> cfg]]
  /\ user' = [user EXCEPT ![f] = usr]
  /\ config' = [config EXCEPT ![f] = cfg]
  /\ promise' = [promise EXCEPT ![f] = Create(@, "updateAttributes")]
  /\ Invoke(f, {}, "updateAttributes")
  /\ UNCHANGED <<authDetails, creds, dispatched, credentials, fedLog>>

\* The callback updateAttributes hands to user.updateAttributes.
updateAttributesCallback(f, answer) ==
  /\ "updateAttributes" \in outstanding[f]
  /\ Deliver(f, "updateAttributes", answer)
  /\ LET out == Answered(f, "updateAttributes") IN
     IF answer.cb = "err"
       THEN /\ promise' = [promise EXCEPT ![f] =
                 Settle(@, "updateAttributes", Rejected(answer.error.message))]
            /\ outstanding' = [outstanding EXCEPT ![f] = out]
            /\ UNCHANGED calls
       ELSE IF emailVerificationIsMandatory(config[f])
       THEN \* resolve(loginOrVerifyEmail(user, config))
            CallLoginOrVerifyEmail(f, promise[f], out)
       ELSE /\ promise' = [promise EXCEPT ![f] =
                 Settle(@, "updateAttributes",
                        Resolved(Action_updateAttributes(call[f].attributes)))]
            /\ outstanding' = [outstanding EXCEPT ![f] = out]
            /\ UNCHANGED calls
  /\ UNCHANGED <<call, user, config, authDetails, creds, dispatched, credentials, fedLog>>

----------------------------------------------------------------------------
(* registerUser *)

\* registerUser(userPool, config, username, password, attributes)
registerUser(f, cfg, username, password, attributes) ==
  /\ call[f] = Idle
  /\ UNCHANGED answers
  /\ call' = [call EXCEPT ![f] = [kind |-> "registerUser", username |-> username,
                                  password |-> password,
                                  attributes |-> attributes,
                                  attributeList |-> mkAttrList(attributes),
                                  config |-> cfg]]
  /\ promise' = [promise EXCEPT ![f] = Create(@, "registerUser")]
  /\ Invoke(f, {}, "signUp")
  /\ UNCHANGED <<user, config, authDetails, creds, dispatched, credentials, fedLog>>

\* Variant: registerUser forgets to pass its config on.
RegisterAuthArgs_noConfig(c) ==
  [username |-> c.username, password |-> c.password,
   config |-> ConfigAbsent("undefined")]

\* The arguments registerUser passes on to authenticate.
RegisterAuthArgs(c) ==
  [username |-> c.username, password |-> c.password, config |-> c.config]

\* Variant: the test on userConfirmed is inverted.
NeedsConfirmation_inverted(result) == result.userConfirmed = "bool:true"

\* result.userConfirmed === false
NeedsConfirmation(result) == result.userConfirmed = "bool:false"

\* The callback registerUser hands to userPool.signUp.
signUpCallback(f, answer) ==
  /\ "signUp" \in outstanding[f]
  /\ Deliver(f, "signUp", answer)
  /\ LET out == Answered(f, "signUp") IN
     IF answer.cb = "err"
       THEN /\ promise' = [promise EXCEPT ![f] =
                 Settle(@, "registerUser", Rejected(answer.error.message))]
            /\ outstanding' = [outstanding EXCEPT ![f] = out]
            /\ UNCHANGED <<user, config, authDetails, calls>>
       ELSE IF NeedsConfirmation(answer.result)
       THEN /\ promise' = [promise EXCEPT ![f] =
                 Settle(@, "registerUser",
                        Resolved(Action_confirmationRequired(answer.result.user)))]
            /\ outstanding' = [outstanding EXCEPT ![f] = out]
            /\ UNCHANGED <<user, config, authDetails, calls>>
       ELSE \* resolve(authenticate(username, password, userPool, config))
            LET a == RegisterAuthArgs(call[f]) IN
            CallAuthenticate(f, promise[f], out, a.username, a.password, a.config)
  /\ UNCHANGED <<call, creds, dispatched, credentials, fedLog>>

----------------------------------------------------------------------------
(* The Login component: authenticate(username, password, userPool, config,   *)
(* dispatch)                                                                *)

Dispatch(f, action) == dispatched' = [dispatched EXCEPT ![f] = Append(@, action)]

Login_authenticate(f, username, password, cfg) ==
  /\ call[f] = Idle
  /\ UNCHANGED answers
  /\ call' = [call EXCEPT ![f] = [kind |-> "Login", username |-> username,
                                  password |-> password, config |-> cfg]]
  /\ authDetails' = [authDetails EXCEPT ![f] = AuthenticationDetails(username, password)]
  /\ user' = [user EXCEPT ![f] = CognitoUser(username)]
  /\ config' = [config EXCEPT ![f] = cfg]
  /\ Invoke(f, {}, "authenticateUser")
  /\ UNCHANGED <<promise, creds, dispatched, credentials, fedLog>>

\* What the Login component's callbacks other than onSuccess dispatch.
Login_authenticateUserOutcome(usr, answer) ==
  CASE answer.cb = "onFailure" -> LoginFailureOutcome(usr, answer.error)
    [] answer.cb = "mfaRequired" -> Action_mfaRequired(usr)
    [] answer.cb = "newPasswordRequired" -> Action_newPasswordRequired(usr)

\* The credentials object onSuccess stores in AWSCognito.config.credentials
\* before it calls refresh on it.
Login_newCredentials(f, username, jwtToken, cfg) ==
  CognitoIdentityCredentials(f, buildLogins(username, jwtToken, cfg))

\* Variant: the credentials object is kept in a local, not in the ambient slot.
Login_storeCredentials_local(c) == UNCHANGED credentials

\* AWSCognito.config.credentials = new CognitoIdentityCredentials(...)
Login_storeCredentials(c) == credentials' = c

\* The callbacks the Login component hands to user.authenticateUser.
\* onSuccess reads config.region first: on an undefined or null config it
\* throws before anything is stored or dispatched.
Login_authenticateUserCallback(f, answer) ==
  /\ call[f].kind = "Login"
  /\ "authenticateUser" \in outstanding[f]
  /\ Deliver(f, "authenticateUser", answer)
  /\ LET out == Answered(f, "authenticateUser") IN
     IF answer.cb # "onSuccess"
       THEN /\ Dispatch(f, Login_authenticateUserOutcome(user[f], answer))
            /\ outstanding' = [outstanding EXCEPT ![f] = out]
            /\ UNCHANGED <<calls, creds, credentials, fedLog>>
       ELSE IF BuildLoginsThrows(config[f])
       THEN /\ outstanding' = [outstanding EXCEPT ![f] = out]
            /\ UNCHANGED <<calls, creds, credentials, fedLog, dispatched>>
       ELSE LET c == Login_newCredentials(f, call[f].username, answer.token, config[f]) IN
            /\ Login_storeCredentials(c)
            /\ creds' = [creds EXCEPT ![f] = c]
            /\ Invoke(f, out, "refresh")
            /\ fedLog' = Append(fedLog, <<"start", f>>)
            /\ UNCHANGED dispatched
  /\ UNCHANGED <<call, user, config, authDetails, promise>>

\* The callback onSuccess hands to AWSCognito.config.credentials.refresh.
Login_refreshCallback(f, answer) ==
  /\ call[f].kind = "Login"
  /\ "refresh" \in outstanding[f]
  /\ Deliver(f, "refresh", answer)
  /\ LET out == Answered(f, "refresh") IN
     IF answer.cb = "error"
       THEN /\ Dispatch(f, Action_loginFailure(user[f], answer.error.message))
            /\ outstanding' = [outstanding EXCEPT ![f] = out]
            /\ UNCHANGED calls
            /\ fedLog' = Append(fedLog, <<"fail", f>>)
       ELSE /\ Invoke(f, out, "postLoginDispatch")
            /\ fedLog' = Append(fedLog, <<"done", f>>)
            /\ UNCHANGED dispatched
  /\ UNCHANGED <<call, user, config, authDetails, promise, creds, credentials>>

\* postLoginDispatch(user, dispatch) of ./utils: the verification gate, handing
\* its Outcome to dispatch, or nothing when the attribute fetch fails.
PostLoginOutcomes(usr) ==
  { Action_login(usr, DecodeAttributes(<<Attr("email_verified", "true")>>, 1, EmptyMap)),
    Action_emailVerificationRequired(usr, EmptyMap),
    Action_emailVerificationFailed(usr, "msgA", EmptyMap) }

postLoginDispatchDone(f, answer) ==
  /\ "postLoginDispatch" \in outstanding[f]
  /\ Deliver(f, "postLoginDispatch", answer)
  /\ outstanding' = [outstanding EXCEPT ![f] = Answered(f, "postLoginDispatch")]
  /\ IF answer.cb = "outcome"
       THEN Dispatch(f, answer.outcome)
       ELSE UNCHANGED dispatched
  /\ UNCHANGED <<call, user, config, authDetails, promise, calls, creds, credentials,
                 fedLog>>

----------------------------------------------------------------------------------------------------------------------------------------
(* The answers of the remote collaborators *)

Errors(msgs) == [message : msgs]

AuthErrors(msgs) ==
  [code : {"UserNotConfirmedException", "NotAuthorizedException"}, message : msgs]

AuthenticateUserAnswers(msgs, tokens) ==
  [cb : {"onSuccess"}, token : tokens]
    \cup [cb : {"onFailure"}, error : AuthErrors(msgs)]
    \cup [cb : {"mfaRequired", "newPasswordRequired"}]

GetSessionAnswers(msgs, tokens) ==
  [cb : {"err"}, error : Errors(msgs)] \cup [cb : {"session"}, token : tokens]

RefreshAnswers(msgs) == [cb : {"error"}, error : Errors(msgs)] \cup [cb : {"ok"}]

GetUserAttributesAnswers(msgs, lists) ==
  [cb : {"error"}, error : Errors(msgs)] \cup [cb : {"result"}, result : lists]

VerificationCodeAnswers(msgs) ==
  [cb : {"onSuccess", "inputVerificationCode"}]
    \cup [cb : {"onFailure"}, error : Errors(msgs)]

UpdateAttributesAnswers(msgs) == [cb : {"err"}, error : Errors(msgs)] \cup [cb : {"ok"}]

SignUpResults(username) ==
  [userConfirmed : {"bool:true", "bool:false", "undefined"},
   user : {SignUpUser(username)}]

SignUpAnswers(msgs, username) ==
  [cb : {"err"}, error : Errors(msgs)]
    \cup [cb : {"result"}, result : SignUpResults(username)]

PostLoginAnswers(usr) ==
  [cb : {"outcome"}, outcome : PostLoginOutcomes(usr)] \cup [cb : {"nothing"}]

Users == {CognitoUser(u) : u \in Usernames}

\* The orders a list may come back in.
Reorderings(list) ==
  { [i \in DOMAIN list |-> list[p[i]]] :
      p \in { q \in [DOMAIN list -> DOMAIN list] :
                \A i, j \in DOMAIN list : q[i] = q[j] => i = j } }

\* The directory echoing a submitted attribute list, in any order.
EchoedAttrLists == UNION { Reorderings(mkAttrList(m)) : m \in SubmittedMaps }

----------------------------------------------------------------------------
(* Specifications *)

\* The callbacks of the verification gate, whichever flow they belong to.
GateCallbacks(msgs, lists) ==
  \/ \E f \in Flows, a \in GetUserAttributesAnswers(msgs, lists) :
       getUserAttributesCallback(f, a)
  \/ \E f \in Flows, a \in VerificationCodeAnswers(msgs) :
       getAttributeVerificationCodeCallback(f, a)

\* The callbacks of the promise chain, whichever flow they belong to.
ChainCallbacks(msgs, tokens, lists) ==
  \/ \E f \in Flows, a \in AuthenticateUserAnswers(msgs, tokens) :
       authenticateUserCallback(f, a)
  \/ \E f \in Flows, a \in GetSessionAnswers(msgs, tokens) : getSessionCallback(f, a)
  \/ \E f \in Flows, a \in RefreshAnswers(msgs) : refreshCallback(f, a)
  \/ GateCallbacks(msgs, lists)

\* The callbacks of the Login component's flows.
ComponentCallbacks(msgs, tokens) ==
  \/ \E f \in Flows, a \in AuthenticateUserAnswers(msgs, tokens) :
       Login_authenticateUserCallback(f, a)
  \/ \E f \in Flows, a \in RefreshAnswers(msgs) : Login_refreshCallback(f, a)
  \/ \E f \in Flows : \E a \in PostLoginAnswers(user[f]) : postLoginDispatchDone(f, a)

UpdateCallbacks ==
  \E f \in Flows, a \in UpdateAttributesAnswers(Messages) : updateAttributesCallback(f, a)

SignUpCallbacks(msgs) ==
  \E f \in Flows :
     /\ call[f].kind = "registerUser"
     /\ \E a \in SignUpAnswers(msgs, call[f].username) : signUpCallback(f, a)

\* No other flow exists.
Alone(f) == \A g \in Flows \ {f} : call[g] = Idle

\* Every entry point, with every input; a single flow.
Entries ==
  \/ \E f \in Flows, u \in Usernames, p \in Passwords, c \in Configs :
       Alone(f) /\ authenticate(f, u, p, c)
  \/ \E f \in Flows, u \in Users \cup {NullUser, UndefinedUser}, c \in Configs :
       Alone(f) /\ performLogin(f, u, c)
  \/ \E f \in Flows, u \in Users, c \in Configs :
       Alone(f) /\ loginOrVerifyEmail(f, u, c)
  \/ \E f \in Flows, u \in Users, m \in SubmittedMaps, c \in Configs :
       Alone(f) /\ updateAttributes(f, u, m, c)
  \/ \E f \in Flows, u \in Usernames, p \in Passwords, m \in SubmittedMaps, c \in Configs :
       Alone(f) /\ registerUser(f, c, u, p, m)
  \/ \E f \in Flows, u \in Usernames, p \in Passwords, c \in Configs :
       Alone(f) /\ Login_authenticate(f, u, p, c)

Next ==
  \/ Entries
  \/ ChainCallbacks(Messages, Tokens, DirectoryAttrLists \cup EchoedAttrLists)
  \/ ComponentCallbacks(Messages, Tokens)
  \/ UpdateCallbacks
  \/ SignUpCallbacks(Messages)

\* One flow, through any entry point, with any input and any remote answers.
Spec == Init /\ [][Next]_vars

\* The inputs of the interleaved login flows.
ConcUsernames == {"alice"}
ConcConfigs   == {ConfigObject("unset")}
ConcMessages  == {"msgA"}
ConcTokens    == {"jwt1"}
ConcAttrLists == { <<>>, <<Attr("email_verified", "true")>> }

\* Login flows of both kinds, started at any time.
ConcEntries ==
  \/ \E f \in Flows, u \in ConcUsernames, p \in Passwords, c \in ConcConfigs :
       authenticate(f, u, p, c)
  \/ \E f \in Flows, u \in ConcUsernames, p \in Passwords, c \in ConcConfigs :
       Login_authenticate(f, u, p, c)

NextConc ==
  \/ ConcEntries
  \/ ChainCallbacks(ConcMessages, ConcTokens, ConcAttrLists)
  \/ ComponentCallbacks(ConcMessages, ConcTokens)

\* Up to NumFlows login flows whose callbacks interleave arbitrarily.
SpecConc == Init /\ [][NextConc]_vars

\* The inputs of a registration beside a login.
PairConfigs == {ConfigObject("unset"), ConfigAbsent("undefined")}

\* authenticate and registerUser, started at any time.
PairEntries ==
  \/ \E f \in Flows, u \in ConcUsernames, p \in Passwords, c \in PairConfigs :
       authenticate(f, u, p, c)
  \/ \E f \in Flows, u \in ConcUsernames, p \in Passwords, c \in PairConfigs :
       registerUser(f, c, u, p, EmptyMap)

NextPair ==
  \/ PairEntries
  \/ ChainCallbacks(ConcMessages, ConcTokens, ConcAttrLists)
  \/ SignUpCallbacks(ConcMessages)

\* Up to NumFlows flows, each a login or a registration, side by side.
SpecPair == Init /\ [][NextPair]_vars

\* The inputs of verification gates run side by side.
GateConfigs   == {ConfigObject("unset"), ConfigObject("bool:false"),
                  ConfigAbsent("undefined")}
GateAttrLists == { <<>>, <<Attr("email_verified", "true")>>,
                   <<Attr("email_verified", "false")>> }

GateEntries ==
  \E f \in Flows, u \in ConcUsernames, c \in GateConfigs :
     loginOrVerifyEmail(f, CognitoUser(u), c)

NextGate ==
  \/ GateEntries
  \/ GateCallbacks(ConcMessages, GateAttrLists)

\* Up to NumFlows runs of loginOrVerifyEmail, started at any time, one after
\* another or interleaved.
SpecGate == Init /\ [][NextGate]_vars

\* The remote calls that take an object of several completion callbacks
\* (onSuccess, onFailure, ...), of which a misbehaving collaborator may invoke
\* more than one.
RepeatableCalls == {"authenticateUser", "getAttributeVerificationCode"}

\* How many callbacks of remote call `name` of flow f have been invoked.
TimesAnswered(f, name) ==
  Cardinality({i \in DOMAIN answers[f] : answers[f][i].call = name})

\* The collaborator is about to invoke a further callback of a call it has
\* answered already.
CallbackAgain(f, name) ==
  /\ name \notin outstanding[f]
  /\ TimesAnswered(f, name) \in 1..(MaxCallbacks - 1)
  /\ outstanding' = [outstanding EXCEPT ![f] = @ \cup {name}]
  /\ UNCHANGED <<call, user, config, authDetails, promise, calls, answers, creds,
                 dispatched, credentials, fedLog>>

\* authenticateUser has invoked onSuccess in flow f.
SucceededBefore(f) ==
  \E i \in DOMAIN answers[f] :
     answers[f][i].call = "authenticateUser" /\ answers[f][i].answer.cb = "onSuccess"

\* The callbacks authenticateUser may invoke next: each onSuccess starts a
\* continuation chain of its own, and a flow of the model follows one chain, so
\* onSuccess is invoked at most once per flow.
AuthenticateUserAnswersNow(f, msgs, tokens) ==
  IF SucceededBefore(f)
    THEN {a \in AuthenticateUserAnswers(msgs, tokens) : a.cb # "onSuccess"}
    ELSE AuthenticateUserAnswers(msgs, tokens)

RepeatEntries ==
  \/ \E f \in Flows, u \in ConcUsernames, p \in Passwords, c \in PairConfigs :
       Alone(f) /\ authenticate(f, u, p, c)
  \/ \E f \in Flows, u \in ConcUsernames, p \in Passwords, c \in PairConfigs :
       Alone(f) /\ Login_authenticate(f, u, p, c)

RepeatCallbacks ==
  \/ \E f \in Flows : \E a \in AuthenticateUserAnswersNow(f, ConcMessages, ConcTokens) :
       authenticateUserCallback(f, a)
  \/ \E f \in Flows : \E a \in AuthenticateUserAnswersNow(f, ConcMessages, ConcTokens) :
       Login_authenticateUserCallback(f, a)
  \/ \E f \in Flows, a \in GetSessionAnswers(ConcMessages, ConcTokens) :
       getSessionCallback(f, a)
  \/ \E f \in Flows, a \in RefreshAnswers(ConcMessages) : refreshCallback(f, a)
  \/ \E f \in Flows, a \in RefreshAnswers(ConcMessages) : Login_refreshCallback(f, a)
  \/ \E f \in Flows : \E a \in PostLoginAnswers(user[f]) : postLoginDispatchDone(f, a)

NextRepeat ==
  \/ RepeatEntries
  \/ RepeatCallbacks
  \/ GateCallbacks(ConcMessages, ConcAttrLists)
  \/ \E f \in Flows, name \in RepeatableCalls : CallbackAgain(f, name)

\* One login flow against a directory that may invoke up to MaxCallbacks
\* callbacks of authenticateUser and of getAttributeVerificationCode.
SpecRepeat == Init /\ [][NextRepeat]_vars

----------------------------------------------------------------------------
(* What the claims speak of *)

\* Remote call `name` was made in flow f.
Called(f, name) == \E i \in DOMAIN calls[f] : calls[f][i] = name

\* Remote call `name` of flow f has been answered.
HasAnswer(f, name) == \E i \in DOMAIN answers[f] : answers[f][i].call = name

\* The (first) answer to remote call `name` of flow f.
AnswerTo(f, name) ==
  answers[f][CHOOSE i \in DOMAIN answers[f] :
               /\ answers[f][i].call = name
               /\ \A j \in 1..(i - 1) : answers[f][j].call # name].answer

\* Remote call `name` of flow f was answered through callback cb.
Got(f, name, cb) == HasAnswer(f, name) /\ AnswerTo(f, name).cb = cb

\* The attribute map the directory's answer to getUserAttributes stands for.
Fetched(f) == DecodeAttributes(AnswerTo(f, "getUserAttributes").result, 1, EmptyMap)

\* email_verified is the literal string "true".
VerifiedIn(attributes) ==
  \E n \in DOMAIN attributes : n = "email_verified" /\ attributes[n] = "true"

\* The policy as the specification words it: mandatory unless the config's
\* mandatoryEmailVerification is exactly false.
Mandatory(c) == ~(c.kind = "object" /\ c.mandatoryEmailVerification = "bool:false")

\* Directory authentication, session fetch and federation succeeded in flow f.
Federated(f) ==
  /\ Got(f, "authenticateUser", "onSuccess")
  /\ Got(f, "getSession", "session")
  /\ Got(f, "refresh", "ok")

\* Two promises are settled alike.
SameSettlement(p, q) ==
  /\ p.state = q.state
  /\ p.state = "resolved" => p.value = q.value
  /\ p.state = "rejected" => p.reason = q.reason

\* The promise is resolved with an Outcome of the given variant.
ResolvedAs(p, type) == p.state = "resolved" /\ p.value.type = type

----------------------------------------------------------------------------
(* C1 *)

\* C1: every authenticate call ends with its promise resolved: once every
\* remote call of the flow has invoked a callback, the promise is neither
\* pending nor rejected.
C1_AuthenticateAlwaysResolves ==
  \A f \in Flows :
    (call[f].kind = "authenticate" /\ outstanding[f] = {})
      => promise[f]["authenticate"].state = "resolved"

----------------------------------------------------------------------------
(* C2 *)

\* The case of C2: a federated authenticate flow under a mandatory policy whose
\* fetched email_verified is not "true".
C2_Case(f) ==
  /\ call[f].kind = "authenticate"
  /\ Federated(f)
  /\ Mandatory(call[f].config)
  /\ Got(f, "getUserAttributes", "result")
  /\ ~VerifiedIn(Fetched(f))

\* C2 as claimed: in that case the Outcome is EmailVerificationRequired or
\* EmailVerificationFailed, never LoggedIn, whatever the verification-code
\* request answers.
C2_NeverLoggedInUnverified ==
  \A f \in Flows :
    (C2_Case(f) /\ promise[f]["authenticate"].state = "resolved")
      => promise[f]["authenticate"].value.type
           \in {"EmailVerificationRequired", "EmailVerificationFailed"}

\* C2 as amended: in that case the verification code is requested, no Outcome
\* exists before it is answered, and the Outcome is EmailVerificationRequired
\* on inputVerificationCode, EmailVerificationFailed on onFailure, and LoggedIn
\* on onSuccess (and only then).
C2_OutcomeFollowsCodeAnswer ==
  \A f \in Flows :
    C2_Case(f) =>
      /\ Called(f, "getAttributeVerificationCode")
      /\ IF HasAnswer(f, "getAttributeVerificationCode")
           THEN LET a == AnswerTo(f, "getAttributeVerificationCode") IN
                ResolvedAs(promise[f]["authenticate"],
                  CASE a.cb = "inputVerificationCode" -> "EmailVerificationRequired"
                    [] a.cb = "onFailure" -> "EmailVerificationFailed"
                    [] a.cb = "onSuccess" -> "LoggedIn")
           ELSE promise[f]["authenticate"].state = "pending"

C2_Witness ==
  \E f \in Flows :
    /\ C2_Case(f)
    /\ Got(f, "getAttributeVerificationCode", "onSuccess")
    /\ ResolvedAs(promise[f]["authenticate"], "LoggedIn")

----------------------------------------------------------------------------
(* C3 *)

\* The config switches verification off: mandatoryEmailVerification is exactly
\* false.
C3_Off(c) == c.kind = "object" /\ c.mandatoryEmailVerification = "bool:false"

\* C3: in an authenticate flow whose config.mandatoryEmailVerification is
\* exactly false, getAttributeVerificationCode is never invoked and
\* EmailVerificationRequired is never the Outcome; and once authentication,
\* session fetch, federation and attribute fetch have succeeded the Outcome is
\* LoggedIn{user, attributes} with the fetched attributes, whatever
\* email_verified holds.
C3_NotMandatoryLogsIn ==
  \A f \in Flows :
    (call[f].kind = "authenticate" /\ C3_Off(call[f].config)) =>
      /\ ~Called(f, "getAttributeVerificationCode")
      /\ ~ResolvedAs(promise[f]["authenticate"], "EmailVerificationRequired")
      /\ (Federated(f) /\ Got(f, "getUserAttributes", "result"))
           => promise[f]["authenticate"]
                = Resolved(Action_login(CognitoUser(call[f].username), Fetched(f)))

C3_Witness ==
  \E f \in Flows :
    /\ call[f].kind = "authenticate" /\ C3_Off(call[f].config)
    /\ Federated(f) /\ Got(f, "getUserAttributes", "result")
    /\ ~VerifiedIn(Fetched(f))
    /\ ResolvedAs(promise[f]["authenticate"], "LoggedIn")

----------------------------------------------------------------------------
(* C4 *)

\* C4: when the credential refresh fails, the flow's Outcome is
\* LoginFailure{user, message} with the exchange service's message, and the
\* verification gate is not entered: getUserAttributes,
\* getAttributeVerificationCode (and, in the Login component,
\* postLoginDispatch) are never invoked.
C4_RefreshFailureIsLoginFailure ==
  \A f \in Flows :
    Got(f, "refresh", "error") =>
      LET failure == Action_loginFailure(user[f], AnswerTo(f, "refresh").error.message) IN
      /\ ~Called(f, "getUserAttributes")
      /\ ~Called(f, "getAttributeVerificationCode")
      /\ ~Called(f, "postLoginDispatch")
      /\ call[f].kind \in {"authenticate", "registerUser"}
           => /\ promise[f]["authenticate"] = Resolved(failure)
              /\ user[f] = CognitoUser(call[f].username)
      /\ call[f].kind = "registerUser" => promise[f]["registerUser"] = Resolved(failure)
      /\ call[f].kind = "performLogin"
           => promise[f]["performLogin"] = Resolved(failure) /\ user[f] = call[f].user
      /\ call[f].kind = "Login"
           => dispatched[f] = <<failure>> /\ user[f] = CognitoUser(call[f].username)

C4_Witness ==
  \E f \in Flows :
    /\ call[f].kind = "authenticate"
    /\ Got(f, "getSession", "session")
    /\ Got(f, "refresh", "error")
    /\ ResolvedAs(promise[f]["authenticate"], "LoginFailure")
    /\ promise[f]["authenticate"].value.message = "msgB"

----------------------------------------------------------------------------
(* C5 *)

\* C5: in both login entry points (authenticate and the Login component's
\* authenticate) a directory authentication failure with code
\* "UserNotConfirmedException" produces ConfirmationRequired{user}, any other
\* failure LoginFailure with the directory's message.
C5_UnconfirmedIsConfirmationRequired ==
  \A f \in Flows :
    (call[f].kind \in {"authenticate", "Login"} /\ Got(f, "authenticateUser", "onFailure"))
      => LET error == AnswerTo(f, "authenticateUser").error
             usr == CognitoUser(call[f].username)
             expected == IF error.code = "UserNotConfirmedException"
                           THEN Action_confirmationRequired(usr)
                           ELSE Action_loginFailure(usr, error.message)
         IN
         /\ call[f].kind = "authenticate"
              => promise[f]["authenticate"] = Resolved(expected)
         /\ call[f].kind = "Login" => dispatched[f] = <<expected>>

----------------------------------------------------------------------------
(* C6 *)

\* C6: when getUserAttributes fails inside the verification gate, the promise
\* of loginOrVerifyEmail rejects with the directory's message.
C6_AttributeFailureRejects ==
  \A f \in Flows :
    Got(f, "getUserAttributes", "error")
      => promise[f]["loginOrVerifyEmail"]
           = Rejected(AnswerTo(f, "getUserAttributes").error.message)

----------------------------------------------------------------------------
(* C7 *)

\* C7: when sign-up succeeds with userConfirmed: false, registerUser resolves
\* ConfirmationRequired{result.user} and makes no remote call but signUp.
C7_UnconfirmedSignUpStops ==
  \A f \in Flows :
    (/\ call[f].kind = "registerUser"
     /\ Got(f, "signUp", "result")
     /\ AnswerTo(f, "signUp").result.userConfirmed = "bool:false")
      => /\ promise[f]["registerUser"]
              = Resolved(Action_confirmationRequired(AnswerTo(f, "signUp").result.user))
         /\ calls[f] = <<"signUp">>
         /\ outstanding[f] = {}
         /\ promise[f]["authenticate"] = NotCreated

C7_Witness ==
  \E f \in Flows :
    /\ call[f].kind = "registerUser"
    /\ Got(f, "signUp", "result")
    /\ AnswerTo(f, "signUp").result.userConfirmed = "bool:false"
    /\ ResolvedAs(promise[f]["registerUser"], "ConfirmationRequired")

----------------------------------------------------------------------------
(* C8 *)

\* Flow g is a registration whose sign-up succeeded without a confirmation
\* being required.
C8_SignedUp(g) ==
  /\ call[g].kind = "registerUser"
  /\ Got(g, "signUp", "result")
  /\ AnswerTo(g, "signUp").result.userConfirmed # "bool:false"

\* Flow f is an authenticate call with the credentials and config of
\* registration g, and the directory and the exchange service have answered
\* both alike so far.
C8_SameRun(f, g) ==
  /\ call[f].kind = "authenticate"
  /\ C8_SignedUp(g)
  /\ call[f].username = call[g].username
  /\ call[f].password = call[g].password
  /\ call[f].config = call[g].config
  /\ Tail(answers[g]) = answers[f]

\* C8: a registration whose sign-up succeeds without confirmation being
\* required ends as an authenticate call with the same credentials, config and
\* remote answers does (same Outcome, or pending or rejected alike), having
\* made the same remote calls; with every step succeeding and email_verified
\* "true" that is LoggedIn{user, attributes}. A registration whose sign-up
\* fails rejects with the directory's message and calls nothing but signUp.
C8_RegisterEndsAsAuthenticate ==
  /\ \A f, g \in Flows :
       C8_SameRun(f, g) =>
         /\ SameSettlement(promise[g]["registerUser"], promise[f]["authenticate"])
         /\ Tail(calls[g]) = calls[f]
         /\ authDetails[g] = authDetails[f]
  /\ \A g \in Flows :
       (/\ C8_SignedUp(g) /\ Federated(g)
        /\ Got(g, "getUserAttributes", "result") /\ VerifiedIn(Fetched(g)))
         => promise[g]["registerUser"]
              = Resolved(Action_login(CognitoUser(call[g].username), Fetched(g)))
  /\ \A g \in Flows :
       (call[g].kind = "registerUser" /\ Got(g, "signUp", "err"))
         => /\ promise[g]["registerUser"]
                 = Rejected(AnswerTo(g, "signUp").error.message)
            /\ calls[g] = <<"signUp">>

C8_Witness ==
  \E f, g \in Flows :
    /\ C8_SameRun(f, g)
    /\ ResolvedAs(promise[f]["authenticate"], "EmailVerificationRequired")
    /\ ResolvedAs(promise[g]["registerUser"], "EmailVerificationRequired")

----------------------------------------------------------------------------
(* C9 *)

\* The flows of the Login component, which is what stores into the ambient
\* credential slot and calls refresh on it.
C9_Component(f) == call[f].kind = "Login"

\* The federation events on the ambient credentials, in order.
C9_Events(what) == SelectSeq(fedLog, LAMBDA e : e[1] \in what)

C9_Last(what) == C9_Events(what)[Len(C9_Events(what))][2]

C9_SameInputs(f, g) ==
  /\ call[f] = call[g]
  /\ answers[f] = answers[g]

----------------------------------------------------------------------------
(* C10 *)

\* C10: updateAttributes rejects with the directory's message when the update
\* fails, and then the verification gate is not run; when the update succeeds
\* under a mandatory policy the gate is run for that user and config and the
\* promise ends as the gate's does, never as AttributesUpdated; when it
\* succeeds and mandatoryEmailVerification is exactly false the result is
\* AttributesUpdated with the submitted map and getUserAttributes is never
\* invoked.
C10_UpdateAttributes ==
  \A f \in Flows :
    call[f].kind = "updateAttributes" =>
      /\ user[f] = call[f].user /\ config[f] = call[f].config
      /\ Got(f, "updateAttributes", "err")
           => /\ promise[f]["updateAttributes"]
                   = Rejected(AnswerTo(f, "updateAttributes").error.message)
              /\ calls[f] = <<"updateAttributes">>
              /\ promise[f]["loginOrVerifyEmail"] = NotCreated
      /\ (Got(f, "updateAttributes", "ok") /\ Mandatory(call[f].config))
           => /\ Called(f, "getUserAttributes")
              /\ promise[f]["loginOrVerifyEmail"] # NotCreated
              /\ SameSettlement(promise[f]["updateAttributes"],
                                promise[f]["loginOrVerifyEmail"])
              /\ ~ResolvedAs(promise[f]["updateAttributes"], "AttributesUpdated")
      /\ (Got(f, "updateAttributes", "ok") /\ ~Mandatory(call[f].config))
           => /\ promise[f]["updateAttributes"]
                   = Resolved(Action_updateAttributes(call[f].attributes))
              /\ ~Called(f, "getUserAttributes")

C10_Witness ==
  \E f \in Flows :
    /\ call[f].kind = "updateAttributes"
    /\ call[f].config.kind = "undefined"
    /\ Got(f, "updateAttributes", "ok")
    /\ ResolvedAs(promise[f]["updateAttributes"], "EmailVerificationRequired")

----------------------------------------------------------------------------
(* C11 *)

\* The policy as C11 lists it: mandatory for undefined, null, {} (flag unset),
\* and for a flag that is true, the string "false" or the number 0; not
\* mandatory for the boolean false alone.
C11_FailClosed(c) ==
  CASE c.kind \in {"undefined", "null"} -> TRUE
    [] c.kind = "object" ->
         (CASE c.mandatoryEmailVerification \in {"unset", "bool:true", "str:false", "num:0"}
                 -> TRUE
            [] c.mandatoryEmailVerification = "bool:false" -> FALSE)

\* Flow f has reached a place where the code evaluates
\* emailVerificationIsMandatory(config): the success branch of the
\* updateAttributes callback, or the reaction of loginOrVerifyEmail to the
\* fetched attributes.
C11_Applied(f) ==
  Got(f, "updateAttributes", "ok") \/ Got(f, "getUserAttributes", "result")

\* C11: emailVerificationIsMandatory is fail-closed: wherever a flow evaluates
\* it, it is true for an undefined or null config, for {} and for any flag
\* other than the boolean false (true, unset, "false", 0), and false only for a
\* flag that is exactly false; and the branch updateAttributes takes on it
\* (run the gate, or answer AttributesUpdated) follows that value.
C11_MandatoryIsFailClosed ==
  \A f \in Flows :
    C11_Applied(f) =>
      /\ emailVerificationIsMandatory(config[f]) = C11_FailClosed(config[f])
      /\ Got(f, "updateAttributes", "ok")
           => (Called(f, "getUserAttributes") <=> C11_FailClosed(config[f]))

C11_Witness ==
  \E f \in Flows :
    /\ call[f].kind = "updateAttributes"
    /\ config[f] = ConfigObject("num:0")
    /\ Got(f, "updateAttributes", "ok")
    /\ Called(f, "getUserAttributes")

----------------------------------------------------------------------------
(* C12 *)

\* Flow f submitted an attribute map (updateAttributes or registerUser) and the
\* directory has answered getUserAttributes with the list the flow sent it, in
\* some order.
C12_Echoed(f) ==
  /\ call[f].kind \in {"updateAttributes", "registerUser"}
  /\ Got(f, "getUserAttributes", "result")
  /\ AnswerTo(f, "getUserAttributes").result \in Reorderings(call[f].attributeList)

\* C12: the list mkAttrList makes of a submitted map (unique string keys,
\* string values), decoded as getUserAttributes decodes it, is the submitted
\* map again (same keys, same value per key), in whatever order the list comes
\* back.
C12_CodecRoundTrip ==
  \A f \in Flows :
    C12_Echoed(f) =>
      /\ promise[f]["getUserAttributes"] = Resolved(call[f].attributes)
      /\ DOMAIN Fetched(f) = DOMAIN call[f].attributes
      /\ \A n \in DOMAIN call[f].attributes : Fetched(f)[n] = call[f].attributes[n]

C12_Witness ==
  \E f \in Flows :
    /\ C12_Echoed(f)
    /\ Len(call[f].attributeList) = 3
    /\ AnswerTo(f, "getUserAttributes").result[1] = call[f].attributeList[3]
    /\ AnswerTo(f, "getUserAttributes").result[2] = call[f].attributeList[1]
    /\ promise[f]["getUserAttributes"] = Resolved(call[f].attributes)

----------------------------------------------------------------------------
(* C13 *)

\* Flows f and g are runs of loginOrVerifyEmail with the same user and config
\* against a directory that has answered both alike so far.
C13_SameRun(f, g) ==
  /\ call[f].kind = "loginOrVerifyEmail"
  /\ call[g] = call[f]
  /\ answers[g] = answers[f]

----------------------------------------------------------------------------
(* C14 *)

\* The remote steps of a login, in order.
C14_Chain ==
  <<"authenticateUser", "getSession", "refresh", "getUserAttributes",
    "getAttributeVerificationCode">>

\* The callback through which a remote step reports success.
C14_Success(name) ==
  CASE name = "signUp" -> "result"
    [] name = "updateAttributes" -> "ok"
    [] name = "authenticateUser" -> "onSuccess"
    [] name = "getSession" -> "session"
    [] name = "refresh" -> "ok"
    [] name = "getUserAttributes" -> "result"
    [] name = "getAttributeVerificationCode" -> "none"

\* The remote steps a flow may take, by the entry point it came in through:
\* the chain, from the step the entry point begins at, preceded by the entry
\* point's own remote call if it has one.
C14_Steps(f) ==
  CASE call[f].kind = "authenticate" -> C14_Chain
    [] call[f].kind = "registerUser" -> <<"signUp">> \o C14_Chain
    [] call[f].kind = "performLogin" -> SubSeq(C14_Chain, 2, 5)
    [] call[f].kind = "loginOrVerifyEmail" -> SubSeq(C14_Chain, 4, 5)
    [] call[f].kind = "updateAttributes" ->
         <<"updateAttributes">> \o SubSeq(C14_Chain, 4, 5)

\* C14: in a flow of the promise-returning entry points the remote steps are
\* taken in the order of the chain (getSession after authenticateUser, the
\* refresh after getSession, getUserAttributes after the refresh,
\* getAttributeVerificationCode after getUserAttributes), each step only after
\* its predecessor has reported success; and in no flow are two remote calls
\* outstanding at once.
C14_LinearChain ==
  \A f \in Flows :
    /\ Cardinality(outstanding[f]) <= 1
    /\ call[f].kind \notin {"idle", "Login"} =>
         /\ Len(calls[f]) <= Len(C14_Steps(f))
         /\ calls[f] = SubSeq(C14_Steps(f), 1, Len(calls[f]))
         /\ \A i \in 2..Len(calls[f]) :
              /\ i - 1 \in DOMAIN answers[f]
              /\ answers[f][i - 1].call = calls[f][i - 1]
              /\ answers[f][i - 1].answer.cb = C14_Success(calls[f][i - 1])

C14_Witness ==
  \E f \in Flows :
    /\ call[f].kind = "authenticate"
    /\ calls[f] = C14_Chain
    /\ Len(answers[f]) = 5
    /\ outstanding[f] = {}

----------------------------------------------------------------------------
(* C15 *)

\* The directory answered authenticateUser of login flow f with mfaRequired or
\* newPasswordRequired.
C15_Challenged(f) ==
  /\ call[f].kind \in {"authenticate", "Login"}
  /\ HasAnswer(f, "authenticateUser")
  /\ AnswerTo(f, "authenticateUser").cb \in {"mfaRequired", "newPasswordRequired"}

\* The Outcome C15 names for that answer.
C15_Outcome(f) ==
  IF AnswerTo(f, "authenticateUser").cb = "mfaRequired"
    THEN Action_mfaRequired(CognitoUser(call[f].username))
    ELSE Action_newPasswordRequired(CognitoUser(call[f].username))

\* The flow has ended with that Outcome and has made no remote call but
\* authenticateUser.
C15_Ended(f) ==
  /\ call[f].kind = "authenticate" => promise[f]["authenticate"] = Resolved(C15_Outcome(f))
  /\ call[f].kind = "Login" => dispatched[f] = <<C15_Outcome(f)>>
  /\ calls[f] = <<"authenticateUser">>
  /\ outstanding[f] = {}
  /\ creds[f] = NoCredentials

\* C15: when the directory answers authenticateUser with mfaRequired or
\* newPasswordRequired (in authenticate or in the Login component), the step
\* that delivers the answer leaves the ambient credential slot as it was, and
\* from then on the flow has ended with MfaRequired{user} or
\* NewPasswordRequired{user}: getSession, the refresh, getUserAttributes and
\* getAttributeVerificationCode are never invoked.
C15_ChallengeShortCircuits ==
  [][\A f \in Flows :
       C15_Challenged(f)' =>
         /\ C15_Ended(f)'
         /\ ~C15_Challenged(f) => credentials' = credentials]_vars

C15_Witness ==
  \E f, g \in Flows :
    /\ C15_Challenged(f)
    /\ AnswerTo(f, "authenticateUser").cb = "mfaRequired"
    /\ call[f].kind = "Login"
    /\ dispatched[f] = <<Action_mfaRequired(CognitoUser(call[f].username))>>
    /\ call[g].kind = "Login" /\ Got(g, "refresh", "ok")
    /\ credentials = creds[g]
    /\ credentials # NoCredentials

----------------------------------------------------------------------------
(* C16 *)

\* getSession failed in flow f (after a successful directory authentication,
\* where the flow began with one).
C16_SessionFailed(f) ==
  /\ call[f].kind \in {"authenticate", "registerUser", "performLogin"}
  /\ Got(f, "getSession", "err")

\* C16: when getSession fails (after a successful directory authentication),
\* the Outcome of the flow is LoginFailure{user, message} with the session
\* error's message, and neither the credential refresh nor the verification
\* gate (getUserAttributes, getAttributeVerificationCode) is attempted.
C16_SessionFailureIsLoginFailure ==
  \A f \in Flows :
    C16_SessionFailed(f) =>
      LET failure == Action_loginFailure(user[f], AnswerTo(f, "getSession").error.message)
      IN
      /\ ~Called(f, "refresh")
      /\ ~Called(f, "getUserAttributes")
      /\ ~Called(f, "getAttributeVerificationCode")
      /\ promise[f]["refreshIdentityCredentials"] = NotCreated
      /\ promise[f]["loginOrVerifyEmail"] = NotCreated
      /\ creds[f] = NoCredentials
      /\ outstanding[f] = {}
      /\ promise[f]["performLogin"] = Resolved(failure)
      /\ call[f].kind = "performLogin" => user[f] = call[f].user
      /\ call[f].kind \in {"authenticate", "registerUser"} =>
           /\ Got(f, "authenticateUser", "onSuccess")
           /\ user[f] = CognitoUser(call[f].username)
           /\ promise[f]["authenticate"] = Resolved(failure)
      /\ call[f].kind = "registerUser" => promise[f]["registerUser"] = Resolved(failure)

C16_Witness ==
  \E f \in Flows :
    /\ call[f].kind = "authenticate"
    /\ Got(f, "authenticateUser", "onSuccess")
    /\ Got(f, "getSession", "err")
    /\ promise[f]["authenticate"]
         = Resolved(Action_loginFailure(CognitoUser(call[f].username), "msgB"))

----------------------------------------------------------------------------
(* C17 *)

\* The gate of flow f runs under a mandatory policy, the fetched email_verified
\* is not "true", and the verification-code request has been answered.
C17_CodeAnswered(f) ==
  /\ call[f].kind # "Login"
  /\ Got(f, "getUserAttributes", "result")
  /\ Mandatory(config[f])
  /\ ~VerifiedIn(Fetched(f))
  /\ HasAnswer(f, "getAttributeVerificationCode")

\* C17: in the verification gate, under a mandatory policy and with
\* email_verified not "true", the Outcome is LoggedIn{user, attributes} when
\* the verification-code request is answered onSuccess,
\* EmailVerificationRequired{user, attributes} when it is answered
\* inputVerificationCode, and EmailVerificationFailed{user, attributes, reason}
\* with the directory's message when it is answered onFailure; user and
\* attributes are the gate's user and the fetched attributes.
C17_GateOutcomeByCodeAnswer ==
  \A f \in Flows :
    C17_CodeAnswered(f) =>
      LET a == AnswerTo(f, "getAttributeVerificationCode") IN
      promise[f]["loginOrVerifyEmail"] =
        Resolved(CASE a.cb = "onSuccess" -> Action_login(user[f], Fetched(f))
                   [] a.cb = "inputVerificationCode"
                        -> Action_emailVerificationRequired(user[f], Fetched(f))
                   [] a.cb = "onFailure"
                        -> Action_emailVerificationFailed(user[f], a.error.message,
                                                          Fetched(f)))

C17_Witness ==
  \E f \in Flows :
    /\ call[f].kind = "loginOrVerifyEmail"
    /\ C17_CodeAnswered(f)
    /\ Got(f, "getAttributeVerificationCode", "onFailure")
    /\ "email_verified" \in DOMAIN Fetched(f)
    /\ ResolvedAs(promise[f]["loginOrVerifyEmail"], "EmailVerificationFailed")
    /\ promise[f]["loginOrVerifyEmail"].value.reason = "msgB"
    /\ promise[f]["loginOrVerifyEmail"].value.user = call[f].user

----------------------------------------------------------------------------
(* C18 *)

\* performLogin was called with null or undefined for the user.
C18_NoUser(f) ==
  /\ call[f].kind = "performLogin"
  /\ call[f].user \in {NullUser, UndefinedUser}

\* C18: performLogin called with a null or undefined user rejects at once with
\* 'user is null': no Outcome, no remote call, no other promise of the chain;
\* and in a flow entered through authenticate or registerUser the user handed
\* to performLogin is the freshly constructed one, and performLogin is never
\* rejected.
C18_NullUserRejects ==
  \A f \in Flows :
    /\ C18_NoUser(f) =>
         /\ promise[f] = [NoPromises EXCEPT !["performLogin"] = Rejected("user is null")]
         /\ calls[f] = <<>>
         /\ outstanding[f] = {}
    /\ (call[f].kind \in {"authenticate", "registerUser"}
          /\ promise[f]["performLogin"] # NotCreated) =>
         /\ user[f] = CognitoUser(call[f].username)
         /\ promise[f]["performLogin"].state # "rejected"

C18_Witness ==
  \E f \in Flows :
    /\ C18_NoUser(f)
    /\ call[f].user = UndefinedUser
    /\ promise[f]["performLogin"] = Rejected("user is null")

----------------------------------------------------------------------------
(* C19 *)

\* The answers of flow f from authenticateUser on (a registration's signUp
\* answer left out).
C19_LoginAnswers(f) ==
  IF call[f].kind = "registerUser" THEN Tail(answers[f]) ELSE answers[f]

\* The promise the caller of flow f holds.
C19_Result(f) ==
  IF call[f].kind = "registerUser" THEN promise[f]["registerUser"]
  ELSE promise[f]["authenticate"]

\* Directory authentication, session fetch, federation and attribute fetch
\* succeeded in flow f, in that order.
C19_AllSucceededInOrder(f) ==
  LET a == C19_LoginAnswers(f) IN
  /\ Len(a) >= 4
  /\ a[1].call = "authenticateUser" /\ a[1].answer.cb = "onSuccess"
  /\ a[2].call = "getSession" /\ a[2].answer.cb = "session"
  /\ a[3].call = "refresh" /\ a[3].answer.cb = "ok"
  /\ a[4].call = "getUserAttributes" /\ a[4].answer.cb = "result"

\* C19: in a flow started through authenticate or registerUser, the result is
\* LoggedIn or EmailVerificationRequired only if directory authentication,
\* session fetch, federation and attribute fetch have all succeeded in that
\* same flow, in that order, however the callbacks of the flows interleave.
C19_LoggedInOnlyAfterAllSteps ==
  \A f \in Flows :
    (/\ call[f].kind \in {"authenticate", "registerUser"}
     /\ \/ ResolvedAs(C19_Result(f), "LoggedIn")
        \/ ResolvedAs(C19_Result(f), "EmailVerificationRequired")
        \/ ResolvedAs(promise[f]["authenticate"], "LoggedIn")
        \/ ResolvedAs(promise[f]["authenticate"], "EmailVerificationRequired"))
      => C19_AllSucceededInOrder(f)

C19_Witness ==
  \E f, g \in Flows :
    /\ call[f].kind = "registerUser"
    /\ ResolvedAs(promise[f]["registerUser"], "LoggedIn")
    /\ C19_AllSucceededInOrder(f)
    /\ call[g].kind = "authenticate"
    /\ Got(g, "refresh", "error")
    /\ ResolvedAs(promise[g]["authenticate"], "LoginFailure")

----------------------------------------------------------------------------
(* C20 *)

\* The promise-returning authenticate: once its promise is resolved with an
\* Outcome, no later callback changes it.
C20_PromiseOutcomeIsFinal ==
  [][\A f \in Flows :
       (call[f].kind = "authenticate" /\ promise[f]["authenticate"].state = "resolved")
         => promise'[f]["authenticate"] = promise[f]["authenticate"]]_vars

\* C20: a flow hands at most one Outcome to its consumer even if a remote
\* collaborator invokes more than one of its completion callbacks: the Outcome
\* the promise of authenticate is resolved with is never replaced, and the Login
\* component hands at most one Outcome to dispatch.
C20_AtMostOneOutcome ==
  [][\A f \in Flows :
       /\ (call[f].kind = "authenticate" /\ promise[f]["authenticate"].state = "resolved")
            => promise'[f]["authenticate"] = promise[f]["authenticate"]
       /\ call'[f].kind = "Login" => Len(dispatched'[f]) <= 1]_vars

\* The directory has invoked mfaRequired and then onFailure in a flow of the
\* Login component, and dispatch has been handed both Outcomes.
C20_Witness ==
  \E f \in Flows :
    /\ call[f].kind = "Login"
    /\ TimesAnswered(f, "authenticateUser") = 2
    /\ answers[f][1].answer.cb = "mfaRequired"
    /\ answers[f][2].answer.cb = "onFailure"
    /\ Len(dispatched[f]) = 2
    /\ dispatched[f][1].type = "MfaRequired"
    /\ dispatched[f][2].type = "LoginFailure"

====
